---- MODULE Spec2Model ----
(***************************************************************************)
(* MCPClientManager (src/unnamed/part_000): the process-backed JSON-RPC    *)
(* client manager.  The manager runs on a single-threaded event loop: an   *)
(* action of this module is one run-to-completion turn of that loop (the   *)
(* synchronous part of a public method up to its first await, a timer      *)
(* callback, a stream or process event handler, the completion of a file   *)
(* write), together with the promise continuations that the turn makes     *)
(* ready.                                                                  *)
(*                                                                         *)
(* Objects are kept in heaps (sequences), maps hold heap indexes, 0 is     *)
(* "undefined":                                                            *)
(*   conns  the MCPConnection objects ever created                         *)
(*   procs  the MCPProcess objects, one per spawned child process          *)
(*   reqs   the promises made by sendRequest                               *)
(*   calls  the activations of the async public methods                    *)
(* store is the text of .claude/mcp-connections.json, loading whether the  *)
(* loadConnections() the constructor started is still reading it.          *)
(* Connection.name and Connection.connectedAt take no part in any          *)
(* decision of the manager and are left out of the records.                *)
(***************************************************************************)
EXTENDS Integers, Sequences, FiniteSets, TLC

VARIABLES connections, conns, processes, procs, reqs, calls, store, loading

vars == <<connections, conns, processes, procs, reqs, calls, store, loading>>

----------------------------------------------------------------------------
(* Bounds of the model *)

\* Spec: connect calls, and disconnect/removeConnection calls, made in one
\* behaviour
MaxConnect == 2
MaxTeardown == 1
\* SpecTeardown: the same
TdConnect == 1
TdTeardown == 2
\* SpecWire: connect, disconnect and callTool calls made in one behaviour
WireConnect == 1
WireTeardown == 1
WireCallTool == 1
\* SpecFair: connect and callTool calls made in one behaviour
FairConnect == 1
FairCallTool == 1
\* SpecCall: connect and callTool calls made in one behaviour
CallConnect == 1
CallCallTool == 2
\* SpecOrder: connect and callTool calls made in one behaviour
OrderConnect == 1
OrderCallTool == 2
\* SpecStale: connect and disconnect calls made in one behaviour
StaleConnect == 2
StaleTeardown == 1
\* characters an MCPProcess buffer may retain between chunks
MaxBuffer == 2

Ids == {"a", "b"}
Urls == {"u1", "u2"}

\* tool catalogues a remote may announce
ToolLists == {<<"search">>}

----------------------------------------------------------------------------
(* Values *)

\* An optional value is the empty set (undefined) or a singleton.
None == {}
Some(v) == {v}
Get(o) == CHOOSE v \in o : TRUE

\* The result member of a response frame: absent/null, an object without
\* tools, or an object with a tools array.
RUndef == [def |-> FALSE, tools |-> None]
REmpty == [def |-> TRUE, tools |-> None]
RTools(l) == [def |-> TRUE, tools |-> Some(l)]
Results == {RUndef, REmpty} \cup {RTools(l) : l \in ToolLists}

\* A JSON document the remote may print on one line.  id = 0: no id member.
\* kind "result": no error member; "error": error is an object, msg its
\* message ("" when it has none); "errnull": the error member is null.
Frame(id, kind, val, msg) == [id |-> id, kind |-> kind, val |-> val, msg |-> msg]
NoFrame == Frame(0, "none", RUndef, "")

\* Characters of the stdout text.  A document is written "{", body, "}".
Ch(c) == [c |-> c, f |-> NoFrame]
Body(f) == [c |-> "body", f |-> f]
NL == Ch("nl")
WS == Ch(" ")
LB == Ch("{")
RB == Ch("}")
Line(f) == <<LB, Body(f), RB, NL>>

----------------------------------------------------------------------------
(* Frame parser: the pure part of handleStdout *)

\* String.prototype.split('\n'): the segments between newlines.
RECURSIVE SplitNL(_, _, _)
SplitNL(text, cur, acc) ==
    IF text = <<>> THEN Append(acc, cur)
    ELSE IF Head(text) = NL THEN SplitNL(Tail(text), <<>>, Append(acc, cur))
    ELSE SplitNL(Tail(text), Append(cur, Head(text)), acc)

Split(text) == SplitNL(text, <<>>, <<>>)

\* String.prototype.trim()
RECURSIVE TrimLeft(_)
TrimLeft(s) == IF s # <<>> /\ Head(s) = WS THEN TrimLeft(Tail(s)) ELSE s

RECURSIVE TrimRight(_)
TrimRight(s) ==
    IF s # <<>> /\ s[Len(s)] = WS THEN TrimRight(SubSeq(s, 1, Len(s) - 1)) ELSE s

Trim(s) == TrimRight(TrimLeft(s))

\* JSON.parse(line): the document, or NoFrame when parsing throws.
JSONParse(line) ==
    LET t == Trim(line)
    IN IF Len(t) = 3 /\ t[1] = LB /\ t[2].c = "body" /\ t[3] = RB
       THEN t[2].f ELSE NoFrame

\* lines 251-255: buffer += data; lines = buffer.split('\n');
\* buffer = lines.pop() || ''
Decode(buffer, data) ==
    LET lines == Split(buffer \o data)
    IN [buffer |-> lines[Len(lines)],
        lines |-> SubSeq(lines, 1, Len(lines) - 1)]

----------------------------------------------------------------------------
(* The manager state as one record, and the records of its heaps *)

M == [connections |-> connections, conns |-> conns, processes |-> processes,
      procs |-> procs, reqs |-> reqs, calls |-> calls, store |-> store]

\* interface MCPConnection.  pid = 0: undefined; a spawned process's pid is
\* its index in procs (pids are not reused within a run).
Connection(id, url) ==
    [id |-> id, url |-> url, status |-> "connecting", pid |-> 0,
     tools |-> None, error |-> None]

\* interface MCPProcess, plus the child's operating-system state os
\* ("running", "killed": kill() sent and exit not yet reported, "exited":
\* the exit event has been emitted), written, the log of the messages
\* written to the child's stdin (id 0: a notification), and replied, how
\* many of the requests in written an in-order remote has answered, and
\* listening, whether a 'data' listener is attached to the child's stdout.
MCPProcess(id) ==
    [id |-> id, os |-> "running", messageQueue |-> <<>>, requestId |-> 0,
     tools |-> <<>>, buffer |-> <<>>, written |-> <<>>, replied |-> 0,
     listening |-> FALSE]

\* The promise sendRequest returns: the process object its executor
\* captured, the id written, the activation awaiting it, the promise state
\* ("pending", "resolved", "rejected"), the value or message it settled
\* with, how often resolve/reject were invoked on it, how often its entry
\* was taken off a messageQueue, and the id of the response frame that
\* completed it (0: none did).
Request(p, rid, method, owner) ==
    [proc |-> p, rid |-> rid, method |-> method, owner |-> owner,
     state |-> "pending", val |-> RUndef, msg |-> "",
     settles |-> 0, removals |-> 0, by |-> 0]

NoSnap == [i \in Ids |-> None]

\* An activation of connect, disconnect, removeConnection or callTool.
\* pc is the await it is suspended at, or "returned" / "raised"; conn and
\* proc are connect's locals connection and proc/mcpProcess, req the request
\* awaited, snap the object its saveConnections is writing, ret the
\* Connection returned, val the value returned by callTool, msg the error
\* caught or raised.
Activation(kind, id) ==
    [kind |-> kind, id |-> id, pc |-> "start", conn |-> 0, proc |-> 0,
     req |-> 0, snap |-> NoSnap, ret |-> 0, val |-> RUndef, msg |-> ""]

ErrSpawn == "Failed to spawn mcp-remote process"
ErrNotConnected == "not connected"
ErrTimeout == "MCP request timeout"
ErrRemote == "MCP error"
ErrWrite == "write failed"
ErrSave == "write of mcp-connections.json failed"
ErrType == "TypeError"

----------------------------------------------------------------------------
(* The connections file: JSON.stringify and JSON.parse of the object       *)
(* id -> MCPConnection.  The text of an object is the sequence of its      *)
(* members in insertion order, a member a key and a value.                 *)

\* the order in which the ids were inserted
IdOrder == <<"a", "b">>

\* The own properties of a Connection object; undefined is None.
Properties(conn) ==
    <<[k |-> "id", v |-> Some(conn.id)],
      [k |-> "url", v |-> Some(conn.url)],
      [k |-> "status", v |-> Some(conn.status)],
      [k |-> "pid", v |-> IF conn.pid = 0 THEN None ELSE Some(conn.pid)],
      [k |-> "tools", v |-> conn.tools],
      [k |-> "error", v |-> conn.error]>>

Defined(member) == member.v # None

\* JSON.stringify(connectionsObj, null, 2), line 98: a property whose value
\* is undefined is left out of the text.
JSONStringify(obj) ==
    LET Entry(i) == [k |-> IdOrder[i],
                     v |-> IF obj[IdOrder[i]] = None THEN None
                           ELSE Some(SelectSeq(Properties(Get(obj[IdOrder[i]])),
                                               Defined))]
        Present(e) == obj[e.k] # None
    IN SelectSeq([i \in DOMAIN IdOrder |-> Entry(i)], Present)

\* The value of the member named k of a parsed object, None when it has no
\* such member.
Member(members, k) ==
    IF \E i \in DOMAIN members : members[i].k = k
    THEN members[CHOOSE i \in DOMAIN members : members[i].k = k].v
    ELSE None

\* JSON.parse(data) as Record<string, MCPConnection>, line 66
JSONParseFile(text) ==
    [id \in Ids |->
        IF Member(text, id) = None THEN None
        ELSE LET ms == Get(Member(text, id))
             IN Some([id |-> Get(Member(ms, "id")),
                      url |-> Get(Member(ms, "url")),
                      status |-> Get(Member(ms, "status")),
                      pid |-> IF Member(ms, "pid") = None THEN 0
                              ELSE Get(Member(ms, "pid")),
                      tools |-> Member(ms, "tools"),
                      error |-> Member(ms, "error")])]

\* The file does not exist (readFile rejects); to loadConnections the same
\* as a file holding the empty object.
NoFile == <<>>

----------------------------------------------------------------------------
(* Helpers of the manager *)

\* saveConnections that copies the records as they are
ConnectionsObjKeepsPid(m) ==
    [i \in Ids |->
        IF m.connections[i] = 0 THEN None
        ELSE Some(m.conns[m.connections[i]])]

\* lines 87-94: the object saveConnections serialises, pid cleared
ConnectionsObj(m) ==
    [i \in Ids |->
        IF m.connections[i] = 0 THEN None
        ELSE Some([m.conns[m.connections[i]] EXCEPT !.pid = 0])]

\* lines 86-99: saveConnections called by activation c; the file write
\* lands (or fails) in a later turn, see SaveDone
SaveConnections(m, c, pc) ==
    [m EXCEPT !.calls[c].snap = ConnectionsObj(m), !.calls[c].pc = pc]

\* ChildProcess.kill(): signals a child that is still running; no effect
\* and no exception otherwise
Kill(m, p) ==
    IF p # 0 /\ m.procs[p].os = "running"
    THEN [m EXCEPT !.procs[p].os = "killed"] ELSE m

\* lines 225-239: the catch block of connect
ConnectCatch(m, c, msg) ==
    LET id == m.calls[c].id
        k == m.calls[c].conn
        m1 == [m EXCEPT !.conns[k].status = "error",
                        !.conns[k].error = Some(msg),
                        !.calls[c].msg = msg]
        m2 == Kill(m1, m1.processes[id])
        m3 == [m2 EXCEPT !.processes[id] = 0]
    IN SaveConnections(m3, c, "saveErr")

\* resolve(value) / reject(error) of request r: a promise settles once
Settle(m, r, state, val, msg) ==
    IF m.reqs[r].state = "pending"
    THEN [m EXCEPT !.reqs[r].state = state, !.reqs[r].val = val,
                   !.reqs[r].msg = msg,
                   !.reqs[r].settles = @ + 1]
    ELSE [m EXCEPT !.reqs[r].settles = @ + 1]

\* sendRequest that rolls a failed write back with messageQueue.shift()
SendRequestShiftsOnFailure(m, id, method, c, wok) ==
    LET p == m.processes[id]
    IN IF p = 0
       THEN [m |-> m, req |-> 0, failed |-> TRUE, msg |-> ErrNotConnected]
       ELSE
         LET rid == m.procs[p].requestId + 1
             r == Len(m.reqs) + 1
             m1 == [m EXCEPT !.procs[p].requestId = rid,
                             !.reqs = Append(@, Request(p, rid, method, c)),
                             !.procs[p].messageQueue = Append(@, r)]
         IN IF wok
            THEN [m |-> [m1 EXCEPT !.procs[p].written =
                                      Append(@, [method |-> method, id |-> rid])],
                  req |-> r, failed |-> FALSE, msg |-> ""]
            ELSE
              LET q == m1.procs[p].messageQueue
                  m2 == [m1 EXCEPT !.procs[p].messageQueue = Tail(q),
                                   !.reqs[Head(q)].removals = @ + 1]
              IN [m |-> Settle(m2, r, "rejected", RUndef, ErrWrite),
                  req |-> r, failed |-> TRUE, msg |-> ErrWrite]

\* sendRequest that gives the id back when the write fails
SendRequestReusesId(m, id, method, c, wok) ==
    LET p == m.processes[id]
    IN IF p = 0
       THEN [m |-> m, req |-> 0, failed |-> TRUE, msg |-> ErrNotConnected]
       ELSE
         LET rid == m.procs[p].requestId + 1
             r == Len(m.reqs) + 1
             m1 == [m EXCEPT !.procs[p].requestId = rid,
                             !.reqs = Append(@, Request(p, rid, method, c)),
                             !.procs[p].messageQueue = Append(@, r)]
         IN IF wok
            THEN [m |-> [m1 EXCEPT !.procs[p].written =
                                      Append(@, [method |-> method, id |-> rid])],
                  req |-> r, failed |-> FALSE, msg |-> ""]
            ELSE
              LET q == m1.procs[p].messageQueue
                  m2 == [m1 EXCEPT !.procs[p].messageQueue =
                                       SubSeq(q, 1, Len(q) - 1),
                                   !.procs[p].requestId = rid - 1,
                                   !.reqs[q[Len(q)]].removals = @ + 1]
              IN [m |-> Settle(m2, r, "rejected", RUndef, ErrWrite),
                  req |-> r, failed |-> TRUE, msg |-> ErrWrite]

\* lines 283-317: sendRequest(id, method, params) called by activation c.
\* wok: whether stdin.write returns normally.  Gives the new state and the
\* request made (req = 0 and msg when the executor rejects before
\* registering anything).
SendRequest(m, id, method, c, wok) ==
    LET p == m.processes[id]
    IN IF p = 0
       THEN [m |-> m, req |-> 0, failed |-> TRUE, msg |-> ErrNotConnected]
       ELSE
         LET rid == m.procs[p].requestId + 1
             r == Len(m.reqs) + 1
             m1 == [m EXCEPT !.procs[p].requestId = rid,
                             !.reqs = Append(@, Request(p, rid, method, c)),
                             !.procs[p].messageQueue = Append(@, r)]
         IN IF wok
            THEN [m |-> [m1 EXCEPT !.procs[p].written =
                                      Append(@, [method |-> method, id |-> rid])],
                  req |-> r, failed |-> FALSE, msg |-> ""]
            ELSE \* lines 303-306: messageQueue.pop(); reject(error)
              LET q == m1.procs[p].messageQueue
                  m2 == [m1 EXCEPT !.procs[p].messageQueue =
                                       SubSeq(q, 1, Len(q) - 1),
                                   !.reqs[q[Len(q)]].removals = @ + 1]
              IN [m |-> Settle(m2, r, "rejected", RUndef, ErrWrite),
                  req |-> r, failed |-> TRUE, msg |-> ErrWrite]

\* sendNotification that numbers its message as sendRequest does
SendNotificationNumbered(m, id, method, wok) ==
    LET p == m.processes[id]
    IN IF p = 0 THEN [m |-> m, failed |-> TRUE, msg |-> ErrNotConnected]
       ELSE IF ~wok THEN [m |-> m, failed |-> TRUE, msg |-> ErrWrite]
       ELSE LET rid == m.procs[p].requestId + 1
            IN [m |-> [m EXCEPT !.procs[p].requestId = rid,
                                !.procs[p].written =
                                    Append(@, [method |-> method, id |-> rid])],
                failed |-> FALSE, msg |-> ""]

\* lines 322-335: sendNotification; failed when it throws
SendNotification(m, id, method, wok) ==
    LET p == m.processes[id]
    IN IF p = 0 THEN [m |-> m, failed |-> TRUE, msg |-> ErrNotConnected]
       ELSE IF ~wok THEN [m |-> m, failed |-> TRUE, msg |-> ErrWrite]
       ELSE [m |-> [m EXCEPT !.procs[p].written =
                                 Append(@, [method |-> method, id |-> 0])],
             failed |-> FALSE, msg |-> ""]

----------------------------------------------------------------------------
(* Promise continuations *)

\* lines 216-222: the tail of connect's try block, reached with the result
\* of tools/list
ConnectFinish(m, c, val) ==
    IF ~val.def
    THEN ConnectCatch(m, c, ErrType)
    ELSE
      LET tools == IF val.tools = None THEN <<>> ELSE Get(val.tools)
          k == m.calls[c].conn
          p == m.calls[c].proc
          m1 == [m EXCEPT !.procs[p].tools = tools,
                          !.conns[k].status = "connected",
                          !.conns[k].pid = p,
                          !.conns[k].tools = Some(tools)]
      IN SaveConnections(m1, c, "save")

\* lines 204-208: connect resumes after initialize resolved
ConnectInitialized(m, c, wok) ==
    LET id == m.calls[c].id
        n == SendNotification(m, id, "notifications/initialized", wok)
        s == SendRequest(n.m, id, "tools/list", c, wok)
    IN IF n.failed THEN ConnectCatch(n.m, c, n.msg)
       ELSE IF s.failed THEN ConnectCatch(s.m, c, s.msg)
       ELSE [s.m EXCEPT !.calls[c].pc = "list", !.calls[c].req = s.req]

\* The continuation of the activation awaiting request r, run once r has
\* settled.
Resume(m, r, wok) ==
    LET c == m.reqs[r].owner
        a == m.calls[c]
        q == m.reqs[r]
    IN IF a.req # r \/ q.state = "pending" THEN m
       ELSE IF a.kind = "callTool" /\ a.pc = "wait"
       THEN IF q.state = "resolved"
            THEN [m EXCEPT !.calls[c].pc = "returned", !.calls[c].val = q.val]
            ELSE [m EXCEPT !.calls[c].pc = "raised", !.calls[c].msg = q.msg]
       ELSE IF a.kind = "connect" /\ a.pc = "init"
       THEN IF q.state = "resolved" THEN ConnectInitialized(m, c, wok)
            ELSE ConnectCatch(m, c, q.msg)
       ELSE IF a.kind = "connect" /\ a.pc = "list"
       THEN IF q.state = "resolved" THEN ConnectFinish(m, c, q.val)
            ELSE ConnectCatch(m, c, q.msg)
       ELSE m

RECURSIVE ResumeAll(_, _, _)
ResumeAll(m, rs, wok) ==
    IF rs = <<>> THEN m
    ELSE ResumeAll(Resume(m, Head(rs), wok), Tail(rs), wok)

----------------------------------------------------------------------------
(* handleStdout *)

\* lines 264-273: one parsed message against the queue of process p.
\* Gives the state and the request settled (0: none).
Correlate(m, p, f) ==
    IF f.id = 0 \/ m.procs[p].messageQueue = <<>>
    THEN [m |-> m, settled |-> 0]
    ELSE
      LET r == Head(m.procs[p].messageQueue)
          m0 == [m EXCEPT !.procs[p].messageQueue = Tail(@),
                          !.reqs[r].removals = @ + 1]
          m1 == IF m0.reqs[r].state = "pending"
                THEN [m0 EXCEPT !.reqs[r].by = f.id] ELSE m0
      IN IF f.kind = "errnull"
         \* message.error.message throws a TypeError, caught at line 274
         THEN [m |-> m0, settled |-> 0]
         ELSE IF f.kind = "error"
         THEN [m |-> Settle(m1, r, "rejected", RUndef,
                            IF f.msg = "" THEN ErrRemote ELSE f.msg),
               settled |-> r]
         ELSE [m |-> Settle(m1, r, "resolved", f.val, ""), settled |-> r]

\* a loop whose try block encloses the for statement: the first line that
\* fails to parse ends it
RECURSIVE HandleLinesAbortsOnError(_, _, _, _)
HandleLinesAbortsOnError(m, p, lines, settled) ==
    IF lines = <<>> THEN [m |-> m, settled |-> settled]
    ELSE
      LET line == Head(lines)
          f == JSONParse(line)
      IN IF Trim(line) = <<>>
         THEN HandleLinesAbortsOnError(m, p, Tail(lines), settled)
         ELSE IF f = NoFrame THEN [m |-> m, settled |-> settled]
         ELSE
           LET x == Correlate(m, p, f)
           IN HandleLinesAbortsOnError(x.m, p, Tail(lines),
                          IF x.settled = 0 THEN settled
                          ELSE Append(settled, x.settled))

\* lines 257-277: the loop over the complete lines
RECURSIVE HandleLines(_, _, _, _)
HandleLines(m, p, lines, settled) ==
    IF lines = <<>> THEN [m |-> m, settled |-> settled]
    ELSE
      LET line == Head(lines)
          f == JSONParse(line)
      IN IF Trim(line) = <<>> \/ f = NoFrame
         THEN HandleLines(m, p, Tail(lines), settled)
         ELSE
           LET x == Correlate(m, p, f)
           IN HandleLines(x.m, p, Tail(lines),
                          IF x.settled = 0 THEN settled
                          ELSE Append(settled, x.settled))

\* handleStdout that takes the first process the map holds, whatever its id
HandleStdoutFirstProcess(m, id, data, wok) ==
    LET held == {i \in Ids : m.processes[i] # 0}
        p == IF held = {} THEN 0
             ELSE m.processes[IF "a" \in held THEN "a" ELSE "b"]
    IN IF p = 0 THEN m
       ELSE
         LET d == Decode(m.procs[p].buffer, data)
             m1 == [m EXCEPT !.procs[p].buffer = d.buffer]
             x == HandleLines(m1, p, d.lines, <<>>)
         IN ResumeAll(x.m, x.settled, wok)

\* lines 246-278: handleStdout(id, data), then the continuations of the
\* requests it settled
HandleStdout(m, id, data, wok) ==
    LET p == m.processes[id]
    IN IF p = 0 THEN m
       ELSE
         LET d == Decode(m.procs[p].buffer, data)
             m1 == [m EXCEPT !.procs[p].buffer = d.buffer]
             x == HandleLines(m1, p, d.lines, <<>>)
         IN ResumeAll(x.m, x.settled, wok)

----------------------------------------------------------------------------
(* The turns of the event loop *)

Set(m) ==
    /\ connections' = m.connections
    /\ conns' = m.conns
    /\ processes' = m.processes
    /\ procs' = m.procs
    /\ reqs' = m.reqs
    /\ calls' = m.calls
    /\ store' = m.store
    /\ loading' = loading

Count(kinds) == Cardinality({c \in DOMAIN calls : calls[c].kind \in kinds})

\* process.kill(pid, 0), lines 109-117: succeeds while the child exists
ProbeAlive(m, p) == m.procs[p].os # "exited"

\* connect that attaches no stdout listener before its first await
ConnectStartListensLater(m, id, url, spawned) ==
    LET c == Len(m.calls) + 1
        a == Activation("connect", id)
        existing == m.processes[id]
        alive == existing # 0 /\ ProbeAlive(m, existing)
        m0 == IF existing # 0 /\ ~alive
              THEN [m EXCEPT !.processes[id] = 0] ELSE m
    IN IF alive /\ m.connections[id] # 0
       THEN [m EXCEPT !.calls = Append(@, [a EXCEPT !.pc = "returned",
                                                    !.ret = m.connections[id]])]
       ELSE
         LET k == Len(m.conns) + 1
             m1 == [m0 EXCEPT !.conns = Append(@, Connection(id, url)),
                              !.connections[id] = k,
                              !.calls = Append(@, [a EXCEPT !.conn = k])]
         IN IF ~spawned THEN ConnectCatch(m1, c, ErrSpawn)
            ELSE
              LET p == Len(m.procs) + 1
              IN [m1 EXCEPT !.procs = Append(@, MCPProcess(id)),
                            !.processes[id] = p,
                            !.calls[c].proc = p,
                            !.calls[c].pc = "settle"]

\* lines 105-192: connect(id, name, url) up to its first await.  spawned:
\* whether spawn() gave a child with a pid.
ConnectStart(m, id, url, spawned) ==
    LET c == Len(m.calls) + 1
        a == Activation("connect", id)
        existing == m.processes[id]
        alive == existing # 0 /\ ProbeAlive(m, existing)
        m0 == IF existing # 0 /\ ~alive
              THEN [m EXCEPT !.processes[id] = 0] ELSE m
    IN IF alive /\ m.connections[id] # 0
       THEN [m EXCEPT !.calls = Append(@, [a EXCEPT !.pc = "returned",
                                                    !.ret = m.connections[id]])]
       ELSE
         LET k == Len(m.conns) + 1
             m1 == [m0 EXCEPT !.conns = Append(@, Connection(id, url)),
                              !.connections[id] = k,
                              !.calls = Append(@, [a EXCEPT !.conn = k])]
         IN IF ~spawned THEN ConnectCatch(m1, c, ErrSpawn)
            ELSE
              LET p == Len(m.procs) + 1
              IN [m1 EXCEPT !.procs = Append(@, MCPProcess(id)),
                            !.processes[id] = p,
                            !.procs[p].listening = TRUE,
                            !.calls[c].proc = p,
                            !.calls[c].pc = "settle"]

Connect(max, id, url, spawned) ==
    /\ Count({"connect"}) < max
    /\ Set(ConnectStart(M, id, url, spawned))

\* lines 192-202: the settle delay elapses and initialize is sent
ConnectSettled(m, c, wok) ==
    LET s == SendRequest(m, m.calls[c].id, "initialize", c, wok)
    IN IF s.failed THEN ConnectCatch(s.m, c, s.msg)
       ELSE [s.m EXCEPT !.calls[c].pc = "init", !.calls[c].req = s.req]

SettleElapsed(c, wok) ==
    /\ c \in DOMAIN calls
    /\ calls[c].kind = "connect" /\ calls[c].pc = "settle"
    /\ Set(ConnectSettled(M, c, wok))

\* lines 160-162: a data event of child p's stdout
Stdout(p, data, wok) ==
    /\ procs[p].os # "exited"
    /\ procs[p].listening
    /\ LET m == HandleStdout(M, procs[p].id, data, wok)
       IN /\ \A x \in DOMAIN m.procs : Len(m.procs[x].buffer) <= MaxBuffer
          /\ Set(m)

\* The requests among the messages written to a child
IsRequest(w) == w.id # 0
Requests(written) == SelectSeq(written, IsRequest)

\* lines 160-162: the data event for the line on which an in-order remote
\* answers the next request it has read and not yet answered, with that
\* request's id
Reply(p, kind, val, wok) ==
    /\ procs[p].os # "exited"
    /\ procs[p].listening
    /\ procs[p].replied < Len(Requests(procs[p].written))
    /\ LET rid == Requests(procs[p].written)[procs[p].replied + 1].id
           data == Line(Frame(rid, kind, val, IF kind = "error" THEN "boom" ELSE ""))
           m == HandleStdout(M, procs[p].id, data, wok)
       IN Set([m EXCEPT !.procs[p].replied = @ + 1])

\* a timer callback that rejects without looking r up in the queue
TimerFiredUnguarded(m, r, wok) ==
    Resume(Settle(m, r, "rejected", RUndef, ErrTimeout), r, wok)

\* lines 309-315: the 30 s timer of request r fires.  The callback looks r
\* up in the queue of the process object the executor captured; when r is
\* no longer there it changes nothing.
TimerFired(m, r, wok) ==
    LET p == m.reqs[r].proc
        q == m.procs[p].messageQueue
        m1 == m
    IN IF \E i \in DOMAIN q : q[i] = r
       THEN LET i == CHOOSE j \in DOMAIN q : q[j] = r
                m2 == [m1 EXCEPT !.procs[p].messageQueue =
                                     SubSeq(q, 1, i - 1) \o SubSeq(q, i + 1, Len(q)),
                                 !.reqs[r].removals = @ + 1]
            IN Resume(Settle(m2, r, "rejected", RUndef, ErrTimeout), r, wok)
       ELSE m1

Timeout(r, wok) ==
    /\ r \in DOMAIN reqs
    /\ Set(TimerFired(M, r, wok))

\* an exit handler that leaves conn.pid as it is
ProcessExitedKeepsPid(m, p) ==
    LET id == m.procs[p].id
        k == m.connections[id]
        m1 == [m EXCEPT !.procs[p].os = "exited", !.processes[id] = 0]
    IN IF k # 0
       THEN [m1 EXCEPT !.conns[k].status = "disconnected"]
       ELSE m1

\* lines 180-189: the exit event of child p
ProcessExited(m, p) ==
    LET id == m.procs[p].id
        k == m.connections[id]
        m1 == [m EXCEPT !.procs[p].os = "exited", !.processes[id] = 0]
    IN IF k # 0
       THEN [m1 EXCEPT !.conns[k].status = "disconnected", !.conns[k].pid = 0]
       ELSE m1

Exit(p) ==
    /\ procs[p].os # "exited"
    /\ Set(ProcessExited(M, p))

\* disconnect that forgets this.processes.delete(id)
DisconnectSyncKeepsEntry(m, id) ==
    LET m1 == Kill(m, m.processes[id])
        k == m1.connections[id]
    IN IF k # 0
       THEN [m1 EXCEPT !.conns[k].status = "disconnected", !.conns[k].pid = 0]
       ELSE m1

\* lines 341-353: disconnect(id) up to its await
DisconnectSync(m, id) ==
    LET m1 == Kill(m, m.processes[id])
        m2 == [m1 EXCEPT !.processes[id] = 0]
        k == m2.connections[id]
    IN IF k # 0
       THEN [m2 EXCEPT !.conns[k].status = "disconnected", !.conns[k].pid = 0]
       ELSE m2

\* lines 340-356: disconnect(id)
DisconnectStart(m, id) ==
    LET c == Len(m.calls) + 1
        a == [Activation("disconnect", id) EXCEPT !.proc = m.processes[id]]
        m1 == [m EXCEPT !.calls = Append(@, a)]
    IN SaveConnections(DisconnectSync(m1, id), c, "save")

Disconnect(max, id) ==
    /\ Count({"disconnect", "remove"}) < max
    /\ Set(DisconnectStart(M, id))

\* lines 443-444: removeConnection(id) up to the await inside disconnect
RemoveStart(m, id) ==
    LET c == Len(m.calls) + 1
        a == [Activation("remove", id) EXCEPT !.proc = m.processes[id]]
        m1 == [m EXCEPT !.calls = Append(@, a)]
    IN SaveConnections(DisconnectSync(m1, id), c, "dsave")

RemoveConnection(max, id) ==
    /\ Count({"disconnect", "remove"}) < max
    /\ Set(RemoveStart(M, id))

\* callTool that writes its request a second time when the first write
\* went through
CallToolStartTwice(m, id, wok) ==
    LET c == Len(m.calls) + 1
        a == Activation("callTool", id)
        m1 == [m EXCEPT !.calls = Append(@, a)]
        s0 == SendRequest(m1, id, "tools/call", c, wok)
        s == IF s0.failed THEN s0 ELSE SendRequest(s0.m, id, "tools/call", c, wok)
    IN IF m.processes[id] = 0 \/ s.failed
       THEN [s.m EXCEPT !.calls[c].pc = "raised", !.calls[c].msg = s.msg,
                        !.calls[c].req = s.req]
       ELSE [s.m EXCEPT !.calls[c].pc = "wait", !.calls[c].req = s.req]

\* lines 383-397: callTool(id, toolName, args)
CallToolStart(m, id, wok) ==
    LET c == Len(m.calls) + 1
        a == Activation("callTool", id)
        m1 == [m EXCEPT !.calls = Append(@, a)]
        s == SendRequest(m1, id, "tools/call", c, wok)
    IN IF m.processes[id] = 0 \/ s.failed
       THEN [s.m EXCEPT !.calls[c].pc = "raised", !.calls[c].msg = s.msg,
                        !.calls[c].req = s.req]
       ELSE [s.m EXCEPT !.calls[c].pc = "wait", !.calls[c].req = s.req]

CallTool(max, id, wok) ==
    /\ Count({"callTool"}) < max
    /\ Set(CallToolStart(M, id, wok))

\* lines 96-98: the mkdir/writeFile of activation c's saveConnections ends;
\* ok: the file was written.  Then the activation continues.
SaveEnded(m, c, ok) ==
    LET a == m.calls[c]
        m0 == [m EXCEPT !.calls[c].snap = NoSnap]
        m1 == IF ok THEN [m0 EXCEPT !.store = JSONStringify(a.snap)] ELSE m0
        raised == [m1 EXCEPT !.calls[c].pc = "raised", !.calls[c].msg = ErrSave]
        returned == [m1 EXCEPT !.calls[c].pc = "returned"]
    IN IF a.kind = "connect" /\ a.pc = "save"
       THEN IF ok THEN [returned EXCEPT !.calls[c].ret = a.conn]
            ELSE ConnectCatch(m1, c, ErrSave)
       ELSE IF a.kind = "connect"
       THEN IF ok THEN [returned EXCEPT !.calls[c].ret = a.conn] ELSE raised
       ELSE IF a.kind = "remove" /\ a.pc = "dsave"
       \* lines 445-446
       THEN IF ok
            THEN SaveConnections([m1 EXCEPT !.connections[a.id] = 0], c, "save")
            ELSE raised
       ELSE IF ok THEN returned ELSE raised

SaveDone(c, ok) ==
    /\ c \in DOMAIN calls
    /\ calls[c].pc \in {"save", "saveErr", "dsave"}
    /\ Set(SaveEnded(M, c, ok))

\* loadConnections that restores the records as the file has them
RECURSIVE LoadConnectionsKeepsStatus(_, _, _)
LoadConnectionsKeepsStatus(m, obj, ids) ==
    IF ids = <<>> THEN m
    ELSE IF obj[Head(ids)] = None
    THEN LoadConnectionsKeepsStatus(m, obj, Tail(ids))
    ELSE LoadConnectionsKeepsStatus(
           [m EXCEPT !.conns = Append(@, [Get(obj[Head(ids)]) EXCEPT !.pid = 0]),
                     !.connections[Head(ids)] = Len(m.conns) + 1],
           obj, Tail(ids))

\* lines 69-75: the loop of loadConnections over the entries of the parsed
\* object obj, ids the keys still to visit
RECURSIVE LoadConnections(_, _, _)
LoadConnections(m, obj, ids) ==
    IF ids = <<>> THEN m
    ELSE IF obj[Head(ids)] = None
    THEN LoadConnections(m, obj, Tail(ids))
    ELSE LoadConnections(
           [m EXCEPT !.conns = Append(@, [Get(obj[Head(ids)])
                                            EXCEPT !.status = "disconnected",
                                                   !.pid = 0]),
                     !.connections[Head(ids)] = Len(m.conns) + 1],
           obj, Tail(ids))

\* A manager as the field initialisers leave it, lines 52-53, beside the
\* file text
Fresh(text) ==
    [connections |-> [i \in Ids |-> 0], conns |-> <<>>,
     processes |-> [i \in Ids |-> 0], procs |-> <<>>,
     reqs |-> <<>>, calls |-> <<>>, store |-> text]

\* lines 55-58 and 451: the server process starts anew; the constructor
\* starts loadConnections(), which awaits the file read
Construct ==
    /\ ~loading
    /\ connections' = Fresh(store).connections
    /\ conns' = Fresh(store).conns
    /\ processes' = Fresh(store).processes
    /\ procs' = Fresh(store).procs
    /\ reqs' = Fresh(store).reqs
    /\ calls' = Fresh(store).calls
    /\ store' = store
    /\ loading' = TRUE

\* lines 65-77: the file read ends and loadConnections continues
LoadDone ==
    /\ loading
    /\ LET m == LoadConnections(M, JSONParseFile(store), IdOrder)
       IN /\ connections' = m.connections
          /\ conns' = m.conns
          /\ UNCHANGED <<processes, procs, reqs, calls, store>>
    /\ loading' = FALSE

\* lines 86-99: a saveConnections() that runs to its end with the file
\* written
Persist ==
    /\ ~loading
    /\ store' = JSONStringify(ConnectionsObj(M))
    /\ UNCHANGED <<connections, conns, processes, procs, reqs, calls, loading>>

----------------------------------------------------------------------------
(* Specifications *)

Init ==
    /\ connections = [i \in Ids |-> 0]
    /\ conns = <<>>
    /\ processes = [i \in Ids |-> 0]
    /\ procs = <<>>
    /\ reqs = <<>>
    /\ calls = <<>>
    /\ store = NoFile
    /\ loading = FALSE

\* One server id and url
OneId == {"a"}
OneUrl == {"u1"}

\* A remote that answers a request with its catalogue or with an error
Catalogue == <<"search">>
AnswerChunks ==
    {Line(Frame(1, "result", RTools(Catalogue), "")),
     Line(Frame(1, "error", RUndef, "boom"))}

\* Spec: the lifecycle of one server id under concurrent connect,
\* disconnect and removeConnection calls, process exits, request timeouts
\* and failing writes of the connections file.
Next ==
    \/ \E id \in OneId, url \in OneUrl, spawned \in BOOLEAN :
          Connect(MaxConnect, id, url, spawned)
    \/ \E c \in DOMAIN calls : SettleElapsed(c, TRUE)
    \/ \E p \in DOMAIN procs, data \in AnswerChunks : Stdout(p, data, TRUE)
    \/ \E r \in DOMAIN reqs : Timeout(r, TRUE)
    \/ \E p \in DOMAIN procs : Exit(p)
    \/ \E id \in OneId : Disconnect(MaxTeardown, id)
    \/ \E id \in OneId : RemoveConnection(MaxTeardown, id)
    \/ \E c \in DOMAIN calls, ok \in BOOLEAN : SaveDone(c, ok)

Spec == Init /\ [][Next]_vars

\* SpecTeardown: repeated disconnect and removeConnection calls around one
\* connect call.
NextTeardown ==
    \/ \E id \in OneId, url \in OneUrl, spawned \in BOOLEAN :
          Connect(TdConnect, id, url, spawned)
    \/ \E c \in DOMAIN calls : SettleElapsed(c, TRUE)
    \/ \E p \in DOMAIN procs, data \in AnswerChunks : Stdout(p, data, TRUE)
    \/ \E r \in DOMAIN reqs : Timeout(r, TRUE)
    \/ \E p \in DOMAIN procs : Exit(p)
    \/ \E id \in OneId : Disconnect(TdTeardown, id)
    \/ \E id \in OneId : RemoveConnection(TdTeardown, id)
    \/ \E c \in DOMAIN calls, ok \in BOOLEAN : SaveDone(c, ok)

SpecTeardown == Init /\ [][NextTeardown]_vars

\* What a remote may print on a line: a response with any result, an error
\* with or without a message, an error that is null, a notification.
Frames ==
    {Frame(1, "result", v, "") : v \in Results}
      \cup {Frame(1, "error", RUndef, "boom"), Frame(1, "error", RUndef, ""),
            Frame(1, "errnull", RUndef, ""), Frame(0, "result", REmpty, "")}

\* Chunks of stdout: whole lines, a line that is no JSON, a blank line, and
\* a document split in two chunks.
Chunks ==
    {Line(f) : f \in Frames}
      \cup {<<Ch("x"), NL>>, <<WS, NL>>,
            <<LB, Body(Frame(1, "result", REmpty, ""))>>, <<RB, NL>>}

\* SpecWire: the request traffic of one server id: any stdout content,
\* failing stdin writes, timeouts, callTool calls, exit and disconnect.
\* The connections file is always written.
NextWire ==
    \/ \E id \in OneId, url \in OneUrl : Connect(WireConnect, id, url, TRUE)
    \/ \E c \in DOMAIN calls, wok \in BOOLEAN : SettleElapsed(c, wok)
    \/ \E p \in DOMAIN procs, data \in Chunks, wok \in BOOLEAN : Stdout(p, data, wok)
    \/ \E r \in DOMAIN reqs, wok \in BOOLEAN : Timeout(r, wok)
    \/ \E p \in DOMAIN procs : Exit(p)
    \/ \E id \in OneId : Disconnect(WireTeardown, id)
    \/ \E id \in OneId, wok \in BOOLEAN : CallTool(WireCallTool, id, wok)
    \/ \E c \in DOMAIN calls : SaveDone(c, TRUE)

SpecWire == Init /\ [][NextWire]_vars

\* SpecFair: one connect and one callTool against a remote that answers
\* with a result, an error, or an error that is null, on an event loop that
\* runs every timer callback and every file-write completion that is due.
ReplyChunks ==
    AnswerChunks \cup {Line(Frame(1, "errnull", RUndef, ""))}

NextFair ==
    \/ \E id \in OneId, url \in OneUrl : Connect(FairConnect, id, url, TRUE)
    \/ \E c \in DOMAIN calls : SettleElapsed(c, TRUE)
    \/ \E p \in DOMAIN procs, data \in ReplyChunks : Stdout(p, data, TRUE)
    \/ \E r \in DOMAIN reqs : Timeout(r, TRUE)
    \/ \E p \in DOMAIN procs : Exit(p)
    \/ \E id \in OneId : CallTool(FairCallTool, id, TRUE)
    \/ \E c \in DOMAIN calls : SaveDone(c, TRUE)

MaxFairCalls == FairConnect + FairCallTool
MaxFairReqs == 2 * FairConnect + FairCallTool

SpecFair ==
    /\ Init /\ [][NextFair]_vars
    /\ \A r \in 1..MaxFairReqs : WF_vars(Timeout(r, TRUE))
    /\ \A c \in 1..MaxFairCalls : WF_vars(SettleElapsed(c, TRUE))
    /\ \A c \in 1..MaxFairCalls : WF_vars(SaveDone(c, TRUE))

\* SpecCall: callTool calls around one connect call, against a remote that
\* answers with a result, an error, or an error that is null; stdin writes
\* of callTool may fail, requests time out, the process may exit.
NextCall ==
    \/ \E id \in OneId, url \in OneUrl : Connect(CallConnect, id, url, TRUE)
    \/ \E c \in DOMAIN calls : SettleElapsed(c, TRUE)
    \/ \E p \in DOMAIN procs, data \in ReplyChunks : Stdout(p, data, TRUE)
    \/ \E r \in DOMAIN reqs : Timeout(r, TRUE)
    \/ \E p \in DOMAIN procs : Exit(p)
    \/ \E id \in OneId, wok \in BOOLEAN : CallTool(CallCallTool, id, wok)
    \/ \E c \in DOMAIN calls : SaveDone(c, TRUE)

SpecCall == Init /\ [][NextCall]_vars

\* SpecPersist: the connections file across restarts of the server.  The
\* manager starts with any Connection map its operations can leave (a
\* 'connected' record has its process registered); the map is saved, the
\* server restarts and loads the file.
Stored(id) ==
    {None}
      \cup {Some(Connection(id, url)) : url \in Urls}
      \cup {Some([Connection(id, url) EXCEPT !.status = "connected", !.pid = 1,
                                             !.tools = Some(l)]) :
              url \in Urls, l \in {<<>>, Catalogue}}
      \cup {Some([Connection(id, url) EXCEPT !.status = "error",
                                             !.error = Some(e)]) :
              url \in Urls, e \in {ErrSpawn, "boom"}}
      \cup {Some([Connection(id, url) EXCEPT !.status = "disconnected",
                                             !.tools = t, !.error = e]) :
              url \in Urls, t \in {None, Some(<<>>), Some(Catalogue)},
              e \in {None, Some("boom")}}

\* The index of the object for id in a heap, 0 when it has none
Pos(heap, id) ==
    IF \E i \in DOMAIN heap : heap[i].id = id
    THEN CHOOSE i \in DOMAIN heap : heap[i].id = id ELSE 0

IsSome(o) == o # None
IsLive(conn) == conn.status = "connected"

InitPersist ==
    \E ra \in Stored("a"), rb \in Stored("b") :
        LET some == SelectSeq(<<ra, rb>>, IsSome)
            cs == [i \in DOMAIN some |-> Get(some[i])]
            live == SelectSeq(cs, IsLive)
        IN /\ conns = [i \in DOMAIN cs |-> [cs[i] EXCEPT !.pid = Pos(live, cs[i].id)]]
           /\ connections = [id \in Ids |-> Pos(cs, id)]
           /\ procs = [j \in DOMAIN live |->
                         [MCPProcess(live[j].id) EXCEPT !.listening = TRUE,
                                                       !.requestId = 2,
                                                       !.tools = Get(live[j].tools)]]
           /\ processes = [id \in Ids |-> Pos(live, id)]
           /\ reqs = <<>>
           /\ calls = <<>>
           /\ store = NoFile
           /\ loading = FALSE

NextPersist ==
    \/ Persist
    \/ Construct
    \/ LoadDone

SpecPersist == InitPersist /\ [][NextPersist]_vars

\* SpecOrder: one connection to an in-order remote: it answers each
\* request at most once, with the request's id, in the order the requests
\* were written, with a result or an error; requests time out at any moment.
NextOrder ==
    \/ \E id \in OneId, url \in OneUrl : Connect(OrderConnect, id, url, TRUE)
    \/ \E c \in DOMAIN calls : SettleElapsed(c, TRUE)
    \/ \E p \in DOMAIN procs : Reply(p, "result", RTools(Catalogue), TRUE)
    \/ \E p \in DOMAIN procs : Reply(p, "error", RUndef, TRUE)
    \/ \E r \in DOMAIN reqs : Timeout(r, TRUE)
    \/ \E id \in OneId : CallTool(OrderCallTool, id, TRUE)
    \/ \E c \in DOMAIN calls : SaveDone(c, TRUE)

SpecOrder == Init /\ [][NextOrder]_vars

\* SpecStale: two connect calls and a disconnect call for one id, each
\* process an in-order remote whose answers may arrive until its exit event.
NextStale ==
    \/ \E id \in OneId, url \in OneUrl : Connect(StaleConnect, id, url, TRUE)
    \/ \E c \in DOMAIN calls : SettleElapsed(c, TRUE)
    \/ \E p \in DOMAIN procs : Reply(p, "result", RTools(Catalogue), TRUE)
    \/ \E p \in DOMAIN procs : Exit(p)
    \/ \E id \in OneId : Disconnect(StaleTeardown, id)
    \/ \E c \in DOMAIN calls : SaveDone(c, TRUE)

SpecStale == Init /\ [][NextStale]_vars

----------------------------------------------------------------------------
(* Queries, and what a step did *)

MNext == [connections |-> connections', conns |-> conns',
          processes |-> processes', procs |-> procs', reqs |-> reqs',
          calls |-> calls', store |-> store']

\* lines 375-378
IsConnected(m, id) ==
    m.connections[id] # 0 /\ m.conns[m.connections[id]].status = "connected"

\* lines 408-412: the descriptor of a connection
Descriptor(conn) ==
    [type |-> "stdio", command |-> "npx",
     args |-> <<"-y", "mcp-remote", conn.url>>]

\* getMcpServersForSDK without the test of the status
RECURSIVE ServersForSDKAnyStatus(_, _, _)
ServersForSDKAnyStatus(m, keys, servers) ==
    IF keys = <<>> THEN servers
    ELSE LET k == m.connections[Head(keys)]
         IN IF k # 0
            THEN ServersForSDKAnyStatus(m, Tail(keys),
                   [servers EXCEPT ![m.conns[k].id] = Some(Descriptor(m.conns[k]))])
            ELSE ServersForSDKAnyStatus(m, Tail(keys), servers)

\* lines 406-414: the loop over this.connections.values(), keys the map
\* keys still to visit, servers the object built so far
RECURSIVE ServersForSDK(_, _, _)
ServersForSDK(m, keys, servers) ==
    IF keys = <<>> THEN servers
    ELSE LET k == m.connections[Head(keys)]
         IN IF k # 0 /\ m.conns[k].status = "connected"
            THEN ServersForSDK(m, Tail(keys),
                   [servers EXCEPT ![m.conns[k].id] = Some(Descriptor(m.conns[k]))])
            ELSE ServersForSDK(m, Tail(keys), servers)

\* lines 403-417
GetMcpServersForSDK(m) == ServersForSDK(m, IdOrder, [i \in Ids |-> None])

\* toolsResponse.tools || [], line 209
ToolsOf(val) == IF val.tools = None THEN <<>> ELSE Get(val.tools)

\* The step is a call of the method kind: it appends the activation c.
Called(kind, c) ==
    /\ c = Len(calls) + 1
    /\ Len(calls') = c
    /\ calls'[c].kind = kind

\* The step ends activation c of the method kind with pc.
Ended(kind, c, pc) ==
    /\ c \in DOMAIN calls'
    /\ calls'[c].kind = kind
    /\ calls'[c].pc = pc
    /\ (c \in DOMAIN calls => calls[c].pc # pc)

\* The connect activation that created Connection object k
Creator(m, k) ==
    CHOOSE c \in DOMAIN m.calls : m.calls[c].kind = "connect" /\ m.calls[c].conn = k

----------------------------------------------------------------------------
(* Claims *)

\* C1: whenever connect returns a Connection whose status is 'connected',
\* at that moment isConnected(id) is true and getConnection(id).tools is the
\* tool list of the tools/list response that connection was made from.
C1_ConnectedOnReturn ==
    [][\A c \in DOMAIN calls' :
         (Ended("connect", c, "returned")
            /\ conns'[calls'[c].ret].status = "connected")
         => LET id == calls'[c].id
                c0 == Creator(MNext, calls'[c].ret)
            IN /\ IsConnected(MNext, id)
               /\ conns'[connections'[id]].tools
                    = Some(ToolsOf(reqs'[calls'[c0].req].val))]_vars

\* C2: connect never raises to its caller; an attempt that failed returns a
\* Connection whose status is 'error' and whose error field holds the
\* failure message.
C2_ConnectNeverRaises ==
    [][\A c \in DOMAIN calls' :
         /\ ~Ended("connect", c, "raised")
         /\ (Ended("connect", c, "returned") /\ c \in DOMAIN calls
               /\ calls[c].pc = "saveErr")
            => /\ conns'[calls'[c].ret].status = "error"
               /\ conns'[calls'[c].ret].error = Some(calls'[c].msg)]_vars

\* C3: a connect(id) call made while a live process is registered for id is
\* a no-op: it spawns nothing, changes neither the Connection map (nor any
\* Connection object) nor the LiveProcess map, and returns the Connection
\* object stored for id.
C3_DuplicateConnectNoop ==
    [][\A c \in DOMAIN calls' :
         (Called("connect", c) /\ processes[calls'[c].id] # 0
            /\ ProbeAlive(M, processes[calls'[c].id]))
         => /\ procs' = procs
            /\ processes' = processes
            /\ connections' = connections
            /\ conns' = conns
            /\ calls'[c].pc = "returned"
            /\ calls'[c].ret # 0
            /\ calls'[c].ret = connections[calls'[c].id]]_vars

\* C7: after a connect attempt has failed and returned, the process this
\* attempt spawned (if any) is no longer running (it was sent kill, or has
\* exited) and is not registered for id.  (Read in the code's favour: an
\* entry that a later connect call registered meanwhile is not counted.)
C7_FailedConnectCleansUp ==
    [][\A c \in DOMAIN calls :
         (Ended("connect", c, "returned") /\ calls[c].pc = "saveErr"
            /\ calls[c].proc # 0)
         => /\ procs'[calls[c].proc].os # "running"
            /\ processes'[calls[c].id] # calls[c].proc]_vars

\* The transitions of the Connection state machine
StatusStep(old, new) ==
    \/ old = new
    \/ old = "connecting" /\ new \in {"connected", "error"}
    \/ old = "connected" /\ new = "disconnected"

\* C8: a Connection's status changes only along connecting -> connected,
\* connecting -> error and connected -> disconnected; nothing else enters
\* 'disconnected', 'connected' or 'error'.  (Read in the code's favour: the
\* turn of an explicit disconnect call is excepted like that of a
\* removeConnection call.)
C8_StatusTransitions ==
    [][\A k \in DOMAIN conns :
         \/ StatusStep(conns[k].status, conns'[k].status)
         \/ /\ \/ Called("remove", Len(calls) + 1)
               \/ Called("disconnect", Len(calls) + 1)
            /\ conns'[k].status = "disconnected"]_vars

\* C9: a LiveProcess entry is registered for id if and only if a subprocess
\* spawned for id is running (not exited, not sent kill).
C9_EntryIffRunning ==
    \A id \in Ids :
        processes[id] # 0
          <=> \E p \in DOMAIN procs : procs[p].id = id /\ procs[p].os = "running"


\* C4: if the process is killed or exits while a callTool request is
\* outstanding, that callTool call eventually settles.
C4_CallToolSettlesAfterExit ==
    \A c \in 1..MaxFairCalls :
        (/\ c \in DOMAIN calls
         /\ calls[c].kind = "callTool"
         /\ calls[c].pc = "wait"
         /\ procs[reqs[calls[c].req].proc].os # "running")
          ~> (c \in DOMAIN calls /\ calls[c].pc \in {"returned", "raised"})

\* C5: every request sendRequest writes is completed at most once and its
\* pending entry is taken off the queue at most once; no queue holds an
\* entry twice.
C5_CompletedAtMostOnce ==
    /\ \A r \in DOMAIN reqs : reqs[r].settles <= 1 /\ reqs[r].removals <= 1
    /\ \A p \in DOMAIN procs :
         \A i, j \in DOMAIN procs[p].messageQueue :
            procs[p].messageQueue[i] = procs[p].messageQueue[j] => i = j

\* C5 witness: one request was resolved by a response frame and another
\* rejected by its timeout, each completed and removed once.
C5_Witness ==
    \E r1, r2 \in DOMAIN reqs :
        /\ reqs[r1].state = "resolved" /\ reqs[r1].settles = 1
        /\ reqs[r1].removals = 1
        /\ reqs[r2].state = "rejected" /\ reqs[r2].msg = ErrTimeout
        /\ reqs[r2].settles = 1 /\ reqs[r2].removals = 1

\* C6: every request registered as pending eventually settles.
C6_PendingEventuallySettles ==
    \A r \in 1..MaxFairReqs :
        (r \in DOMAIN reqs) ~> (r \in DOMAIN reqs /\ reqs[r].state # "pending")

\* C10 as claimed: after disconnect(id) returns no entry is registered for
\* id, the process that was registered has been sent kill and the record
\* (if any) is 'disconnected' without pid; a disconnect call that finds no
\* process registered does not raise, and leaves both maps as they are when
\* the record is as a disconnect leaves it (absent, or 'disconnected').
C10_DisconnectPostcondition ==
    [][\A c \in DOMAIN calls' :
         LET id == calls'[c].id
             k == connections'[id]
         IN /\ Ended("disconnect", c, "returned")
               => /\ processes'[id] = 0
                  /\ calls'[c].proc # 0 => procs'[calls'[c].proc].os # "running"
                  /\ k # 0 => conns'[k].status = "disconnected" /\ conns'[k].pid = 0
            /\ (/\ Called("disconnect", c) /\ processes[id] = 0
                /\ (k = 0 \/ conns[k].status = "disconnected"))
               => /\ processes' = processes /\ procs' = procs
                  /\ connections' = connections /\ conns' = conns
            /\ Ended("disconnect", c, "raised") => calls'[c].proc # 0]_vars

\* C10 as amended: disconnect(id) takes effect in the turn it is called: the
\* entry for id is removed, the process that was registered is sent kill,
\* the record (if any) becomes 'disconnected' without pid and no record is
\* added or dropped; its completion after the file write changes neither
\* map; it raises only when the file write fails; called when no process is
\* registered it changes no process and not the LiveProcess map, and no
\* Connection either when the record is absent or already 'disconnected'.
C10_DisconnectTakesEffectAtCall ==
    [][\A c \in DOMAIN calls' :
         LET id == calls'[c].id
             p == processes[id]
             k == connections'[id]
         IN /\ Called("disconnect", c)
               => /\ processes'[id] = 0
                  /\ p # 0 => procs'[p].os # "running"
                  /\ k # 0 => conns'[k].status = "disconnected" /\ conns'[k].pid = 0
                  /\ connections' = connections
                  /\ p = 0 => /\ procs' = procs
                              /\ processes' = processes
                              /\ (k = 0 \/ conns[k].status = "disconnected")
                                    => conns' = conns
            /\ (Ended("disconnect", c, "returned") \/ Ended("disconnect", c, "raised"))
                 /\ c \in DOMAIN calls
               => /\ processes' = processes /\ procs' = procs
                  /\ connections' = connections /\ conns' = conns
            /\ Ended("disconnect", c, "raised") => calls'[c].msg = ErrSave]_vars

\* C10 witness: a disconnect call that found a process registered has
\* returned; that process was sent kill, nothing is registered and the record
\* is 'disconnected'.
C10_Witness ==
    \E c \in DOMAIN calls :
        /\ calls[c].kind = "disconnect" /\ calls[c].pc = "returned"
        /\ calls[c].proc # 0 /\ procs[calls[c].proc].os = "killed"
        /\ processes[calls[c].id] = 0
        /\ connections[calls[c].id] # 0
        /\ conns[connections[calls[c].id]].status = "disconnected"

\* C11: removeConnection(id) leaves no Connection stored for id, no
\* LiveProcess entry registered for id and no record for id in the persisted
\* store.  (Read in the code's favour: what a connect call made after the
\* record was deleted registers is not counted, so the two maps are examined
\* in the turn that deletes the record and the store in the turn the call
\* returns.)
C11_RemovePostcondition ==
    [][\A c \in DOMAIN calls' :
         LET id == calls'[c].id
         IN /\ Ended("remove", c, "save")
               => connections'[id] = 0 /\ processes'[id] = 0
            /\ Ended("remove", c, "returned")
               => JSONParseFile(store')[id] = None]_vars

\* What a tools/call request may be rejected with
CallToolErrors == {ErrTimeout, ErrRemote, ErrWrite, "boom"}

Quiescent == \A c \in DOMAIN calls : calls[c].pc \in {"returned", "raised"}

\* C13: whenever the manager is quiescent, the status the persisted store
\* holds for an id is the status of the Connection stored for that id.
C13_StoreFollowsStatus ==
    Quiescent
      => \A id \in Ids :
            connections[id] # 0
              => /\ JSONParseFile(store)[id] # None
                 /\ Get(JSONParseFile(store)[id]).status
                      = conns[connections[id]].status

\* C14: no record in the connections file has a pid member, whatever the
\* record in memory holds.
C14_NoPidPersisted ==
    \A i \in DOMAIN store :
        /\ Member(Get(store[i].v), "pid") = None
        /\ Get(JSONParseFile(store)[store[i].k]).pid = 0

\* C14 witness: the file holds the record of a Connection that carries a
\* pid in memory.
C14_Witness ==
    \E id \in Ids :
        /\ connections[id] # 0
        /\ conns[connections[id]].pid # 0
        /\ JSONParseFile(store)[id] # None
        /\ Get(JSONParseFile(store)[id]).status = "connected"

\* C15: a Connection map that is saved and then loaded by a fresh manager
\* comes back with the same ids and, for every id, the same record except
\* that pid is undefined and status is 'disconnected'; every record a load
\* restores is 'disconnected' without pid and otherwise as the file has it.
C15_RoundTrip ==
    [][/\ (~loading /\ store' # store)
          => LET m == LoadConnections(Fresh(store'), JSONParseFile(store'), IdOrder)
             IN \A id \in Ids :
                   /\ m.connections[id] = 0 <=> connections[id] = 0
                   /\ connections[id] # 0
                      => m.conns[m.connections[id]]
                           = [conns[connections[id]]
                                EXCEPT !.status = "disconnected", !.pid = 0]
       /\ (loading /\ ~loading')
          => \A id \in Ids :
                /\ connections'[id] = 0 <=> JSONParseFile(store)[id] = None
                /\ connections'[id] # 0
                   => /\ conns'[connections'[id]].status = "disconnected"
                      /\ conns'[connections'[id]].pid = 0
                      /\ conns'[connections'[id]]
                           = [Get(JSONParseFile(store)[id])
                                EXCEPT !.status = "disconnected", !.pid = 0]]_vars

\* C15 witness: a restarted manager has loaded a file that was saved with a
\* 'connected' record and an 'error' record; both are 'disconnected' in
\* memory and keep their tools and error.
C15_Witness ==
    /\ ~loading /\ procs = <<>>
    /\ \A id \in Ids : JSONParseFile(store)[id] # None /\ connections[id] # 0
    /\ Get(JSONParseFile(store)["a"]).status = "connected"
    /\ Get(JSONParseFile(store)["b"]).status = "error"
    /\ conns[connections["a"]].status = "disconnected"
    /\ conns[connections["a"]].tools = Some(Catalogue)
    /\ conns[connections["b"]].status = "disconnected"
    /\ conns[connections["b"]].error = Some("boom")

\* C16: the keys of getMcpServersForSDK() are exactly the ids whose
\* Connection has status 'connected', each with a descriptor of type
\* 'stdio' that has a command and whose last argument is that connection's
\* url.
C16_ServersForSDK ==
    \A id \in Ids :
        LET d == GetMcpServersForSDK(M)[id]
        IN /\ d # None <=> IsConnected(M, id)
           /\ d # None
              => /\ Get(d).type = "stdio"
                 /\ Get(d).command # ""
                 /\ Get(d).args[Len(Get(d).args)] = conns[connections[id]].url

\* C16 witness: of two stored Connections with different urls one is
\* 'connected' and the other is not; the result has the one key.
C16_Witness ==
    /\ connections["a"] # 0 /\ connections["b"] # 0
    /\ conns[connections["a"]].status = "error"
    /\ conns[connections["a"]].url = "u1"
    /\ conns[connections["b"]].status = "connected"
    /\ conns[connections["b"]].url = "u2"
    /\ GetMcpServersForSDK(M)["a"] = None
    /\ Get(GetMcpServersForSDK(M)["b"]).args = <<"-y", "mcp-remote", "u2">>

\* C17: against an in-order remote, a request that a response frame
\* completed was completed by the frame carrying the id written for it.
C17_CompletedByOwnFrame ==
    \A r \in DOMAIN reqs : reqs[r].by # 0 => reqs[r].by = reqs[r].rid

\* C18: the exit event of a subprocess leaves the LiveProcess entry of
\* another process registered under the same id in place, and leaves the
\* Connection stored under that id as it is when that Connection was made by
\* another connect call than the one that spawned the exited process.
C18_ExitOfOwnProcessOnly ==
    [][\A p \in DOMAIN procs :
         (procs[p].os # "exited" /\ procs'[p].os = "exited")
         => LET id == procs[p].id
                k == connections[id]
            IN /\ processes[id] # p => processes'[id] = processes[id]
               /\ (k # 0 /\ calls[Creator(M, k)].proc # p)
                  => conns'[k] = conns[k]]_vars

\* C19: the turn in which a connect attempt fails (its catch block runs)
\* sends kill to no process but the one this attempt spawned and removes the
\* LiveProcess entry of no other process.
C19_FailureKillsOwnProcessOnly ==
    [][\A c \in DOMAIN calls' :
         (Ended("connect", c, "saveErr") /\ c \in DOMAIN calls)
         => \A p \in DOMAIN procs :
               p # calls[c].proc
               => /\ procs'[p].os = procs[p].os
                  /\ processes[calls[c].id] = p => processes'[calls[c].id] = p]_vars

\* C20: every tools/call request in the input stream of a process comes
\* after the initialized notification, which connect writes once the
\* initialize response has been received.
C20_NoCallBeforeHandshake ==
    \A p \in DOMAIN procs :
        \A i \in DOMAIN procs[p].written :
            procs[p].written[i].method = "tools/call"
              => \E j \in 1..(i - 1) :
                    procs[p].written[j].method = "notifications/initialized"

\* The step takes request r off its queue otherwise than by r's timeout:
\* by the shift of handleStdout.
ShiftedByFrame(r) ==
    /\ r \in DOMAIN reqs
    /\ reqs'[r].removals = reqs[r].removals + 1
    /\ reqs'[r].msg # ErrTimeout

\* s is a prefix of t
IsPrefix(s, t) == Len(s) <= Len(t) /\ SubSeq(t, 1, Len(s)) = s

\* C21: a frame with an id takes exactly the oldest pending request of the
\* process off the queue and completes it: resolved with a result, or
\* rejected with the error's message (the default message when it has
\* none); the other pending requests stay as they are, in their order.
C21_FrameCompletesOldest ==
    [][\A r \in DOMAIN reqs :
         ShiftedByFrame(r)
         => LET p == reqs[r].proc
                q == procs[p].messageQueue
            IN /\ q # <<>> /\ r = Head(q)
               /\ reqs'[r].settles = 1
               /\ \/ reqs'[r].state = "resolved" /\ reqs'[r].val \in Results
                  \/ reqs'[r].state = "rejected" /\ reqs'[r].msg \in {"boom", ErrRemote}
               /\ IsPrefix(Tail(q), procs'[p].messageQueue)
               /\ \A i \in DOMAIN Tail(q) : reqs'[Tail(q)[i]] = reqs[Tail(q)[i]]]_vars

\* The queue q without its entry for r
Without(q, r) == SelectSeq(q, LAMBDA x : x # r)

\* Request r has an entry in the queue of the process it was written to
InQueue(m, r) ==
    \E i \in DOMAIN m.procs[m.reqs[r].proc].messageQueue :
        m.procs[m.reqs[r].proc].messageQueue[i] = r

\* C22: the expiry of the timeout of a pending request r removes exactly
\* r's entry from the queue and rejects r with the timeout error, leaving
\* every other request and the order of the other entries as they are; the
\* expiry for a completed request changes nothing.  For the first to apply
\* to every pending request, a request that is pending has its entry in the
\* queue.
C22_TimeoutExpiry ==
    [][/\ \A r \in DOMAIN reqs :
            Timeout(r, TRUE)
            => IF reqs[r].state = "pending"
               THEN LET p == reqs[r].proc
                    IN /\ InQueue(M, r)
                       /\ procs'[p].messageQueue = Without(procs[p].messageQueue, r)
                       /\ reqs'[r].state = "rejected" /\ reqs'[r].msg = ErrTimeout
                       /\ reqs'[r].settles = 1 /\ reqs'[r].removals = 1
                       /\ \A r2 \in DOMAIN reqs : r2 # r => reqs'[r2] = reqs[r2]
                       /\ \A x \in DOMAIN procs :
                             x # p => procs'[x].messageQueue = procs[x].messageQueue
               ELSE UNCHANGED vars
       /\ \A r \in DOMAIN reqs' :
            reqs'[r].state = "pending" => InQueue(MNext, r)]_vars

\* C23: the exit event of a subprocess rejects, in that turn, every request
\* that is pending on it.
C23_ExitRejectsPending ==
    [][\A p \in DOMAIN procs :
         (procs[p].os # "exited" /\ procs'[p].os = "exited")
         => \A r \in DOMAIN reqs :
               (reqs[r].proc = p /\ reqs[r].state = "pending")
               => reqs'[r].state = "rejected"]_vars

\* C24: a line printed by process p is decoded and correlated against p
\* only: it changes the buffer of no other process, takes no entry off
\* another process's queue and completes no request written to another
\* process.
C24_StdoutOfOwnProcess ==
    [][\A p \in DOMAIN procs :
         procs'[p].replied > procs[p].replied
         => \A x \in DOMAIN procs :
               x # p
               => /\ procs'[x].buffer = procs[x].buffer
                  /\ IsPrefix(procs[x].messageQueue, procs'[x].messageQueue)
                  /\ \A r \in DOMAIN reqs :
                        (reqs[r].proc = x /\ reqs[r].state = "pending")
                        => reqs'[r].state = "pending"]_vars

\* C25: whenever the Connection stored for id is 'connected', a LiveProcess
\* entry is registered for id.
C25_ConnectedHasEntry ==
    \A id \in Ids : IsConnected(M, id) => processes[id] # 0

\* C26: once the connect call that made the Connection stored for id has
\* returned it with status 'error', a turn that is not a call of connect,
\* disconnect or removeConnection leaves that status 'error'.
C26_ErrorStaysError ==
    [][\A id \in Ids :
         LET k == connections[id]
         IN (/\ k # 0
             /\ conns[k].status = "error"
             /\ calls[Creator(M, k)].pc = "returned"
             /\ Len(calls') = Len(calls))
            => conns'[k].status = "error"]_vars

\* The methods of the messages that connect writes, in the order of the
\* handshake
Handshake == <<"initialize", "notifications/initialized", "tools/list">>

IsHandshake(w) == \E i \in DOMAIN Handshake : w.method = Handshake[i]

\* The methods of the handshake messages written to process p, in order
HandshakeWritten(p) ==
    LET ws == SelectSeq(procs[p].written, IsHandshake)
    IN [i \in DOMAIN ws |-> ws[i].method]

\* A request of the method written to process p has the state
Answered(p, method, state) ==
    \E r \in DOMAIN reqs :
        reqs[r].proc = p /\ reqs[r].method = method /\ reqs[r].state = state

\* C27: the handshake messages written to a process are initialize, the
\* initialized notification and tools/list, once each and in that order;
\* the notification is written only when the initialize request written to
\* that process has been resolved; a Connection is 'connected' only when the
\* tools/list request written to the process spawned for it has been
\* resolved.
C27_HandshakeOrder ==
    /\ \A p \in DOMAIN procs :
          /\ IsPrefix(HandshakeWritten(p), Handshake)
          /\ Len(HandshakeWritten(p)) >= 2 => Answered(p, "initialize", "resolved")
    /\ \A k \in DOMAIN conns :
          conns[k].status = "connected"
            => Answered(calls[Creator(M, k)].proc, "tools/list", "resolved")

\* The queues of all processes
Queues(m) == [p \in DOMAIN m.procs |-> m.procs[p].messageQueue]

\* C28: a send that fails leaves every pending queue as it was.  When no
\* process is registered for the id, the call that sends fails with 'not
\* connected' and no request is registered; when the write throws, the
\* request just registered is taken off again and rejected with the write
\* error, and no other request is touched.
C28_FailedSendRollsBack ==
    [][/\ \A c \in DOMAIN calls' :
            (/\ calls'[c].msg = ErrNotConnected
             /\ c \in DOMAIN calls => calls[c].msg # ErrNotConnected)
            => /\ reqs' = reqs
               /\ Queues(MNext) = Queues(M)
       /\ \A r \in DOMAIN reqs' :
            (r \notin DOMAIN reqs /\ reqs'[r].msg = ErrWrite)
            => /\ reqs'[r].state = "rejected"
               /\ reqs'[r].settles = 1 /\ reqs'[r].removals = 1
               /\ reqs' = Append(reqs, reqs'[r])
               /\ Queues(MNext) = Queues(M)]_vars

\* C28 witness: a request whose write threw was rejected and rolled back
\* while an older request of the same process is still pending in the queue.
C28_Witness ==
    \E r1, r2 \in DOMAIN reqs :
        /\ r1 < r2 /\ reqs[r1].proc = reqs[r2].proc
        /\ reqs[r2].state = "rejected" /\ reqs[r2].msg = ErrWrite
        /\ reqs[r1].state = "pending"
        /\ procs[reqs[r1].proc].messageQueue = <<r1>>

\* Texts without a newline that may end a line which is no JSON document
Garbage ==
    {<<Ch("x")>>, <<LB>>, <<RB>>, <<WS, Ch("x")>>,
     <<Body(Frame(1, "result", REmpty, ""))>>,
     <<LB, Body(Frame(1, "result", REmpty, "")), RB, RB>>}

\* The line is not blank and JSON.parse throws on it
Corrupt(line) == Trim(line) # <<>> /\ JSONParse(line) = NoFrame

\* C29: a stdout line that fails to parse has no effect beyond being
\* consumed: handleStdout given the rest of such a line leaves the manager
\* as it was but for the emptied buffer, and given that line followed by
\* further lines it leaves the manager as the further lines alone would
\* have, from an empty buffer.
C29_CorruptLineDropped ==
    \A id \in Ids :
        LET p == processes[id]
        IN p # 0
           => \A g \in Garbage :
                 Corrupt(procs[p].buffer \o g)
                 => LET clean == [M EXCEPT !.procs[p].buffer = <<>>]
                    IN /\ HandleStdout(M, id, g \o <<NL>>, TRUE) = clean
                       /\ \A rest \in Chunks :
                             HandleStdout(M, id, g \o <<NL>> \o rest, TRUE)
                               = HandleStdout(clean, id, rest, TRUE)

\* C29 witness: a request is pending on a process whose buffer holds the
\* beginning of a line; the line ends corrupt and the well-formed response
\* that follows it in the same chunk resolves the request.
C29_Witness ==
    \E id \in Ids :
        LET p == processes[id]
        IN /\ p # 0
           /\ procs[p].messageQueue # <<>>
           /\ procs[p].buffer # <<>>
           /\ Corrupt(procs[p].buffer \o <<Ch("x")>>)
           /\ LET r == Head(procs[p].messageQueue)
                  m == HandleStdout(M, id,
                         <<Ch("x"), NL>> \o Line(Frame(1, "result", REmpty, "")),
                         TRUE)
              IN /\ m.reqs[r].state = "resolved"
                 /\ m.procs[p].buffer = <<>>

----------------------------------------------------------------------------
(* The stdout pipe as bytes *)

\* The longest stream of which every content is drawn
MaxStream == 4

\* Bytes of the child's stdout.  The one-byte characters are their own
\* bytes; Lead and Cont are the two bytes of a two-byte UTF-8 character,
\* EAcute that character and Repl U+FFFD.
Lead == Ch("c3")
Cont == Ch("a9")
EAcute == Ch("e9")
Repl == Ch("fffd")
Bytes == {NL, WS, LB, RB, Body(Frame(1, "result", REmpty, "")), Lead, Cont}

\* line 161: data.toString(), the UTF-8 decoding of one chunk on its own:
\* a lead byte that its continuation does not follow, and a continuation
\* byte that follows no lead byte, each become U+FFFD.
RECURSIVE DataToString(_)
DataToString(b) ==
    IF b = <<>> THEN <<>>
    ELSE IF Head(b) = Lead
    THEN IF Len(b) >= 2 /\ b[2] = Cont
         THEN <<EAcute>> \o DataToString(SubSeq(b, 3, Len(b)))
         ELSE <<Repl>> \o DataToString(Tail(b))
    ELSE IF Head(b) = Cont THEN <<Repl>> \o DataToString(Tail(b))
    ELSE <<Head(b)>> \o DataToString(Tail(b))

\* line 258: the line is not skipped as blank
NonBlank(line) == Trim(line) # <<>>

\* What the child prints: every stream of at most MaxStream bytes, two
\* documents on two lines, and a document holding a two-byte character.
Streams ==
    UNION {[1..n -> Bytes] : n \in 0..MaxStream}
      \cup {Line(Frame(1, "result", REmpty, "")) \o Line(Frame(1, "result", REmpty, "")),
            <<LB, Body(Frame(1, "result", REmpty, "")), Lead, Cont, RB, NL>>}

\* A child with its stdout: the bytes it prints, how many of them data
\* events have delivered, and the lines handleStdout's loop has taken up.
Piped(proc, stream) == proc @@ [stdout |-> stream, read |-> 0, frames |-> <<>>]

\* lines 160-162: the data event that delivers the next n bytes of child
\* p's stdout
StdoutData(p, n) ==
    /\ procs[p].os # "exited"
    /\ procs[p].listening
    /\ n \in 1..(Len(procs[p].stdout) - procs[p].read)
    /\ LET id == procs[p].id
           text == DataToString(SubSeq(procs[p].stdout, procs[p].read + 1,
                                   procs[p].read + n))
           d == Decode(procs[p].buffer, text)
           m == HandleStdout(M, id, text, TRUE)
       IN Set([m EXCEPT !.procs[p].read = @ + n,
                        !.procs[p].frames =
                            IF processes[id] = p
                            THEN @ \o SelectSeq(d.lines, NonBlank) ELSE @])

\* SpecChunk: connect('a') has spawned its child and waits for the settle
\* delay; the child prints a stream, delivered in chunks of any sizes.
InitChunk ==
    \E stream \in Streams :
        LET m0 == [connections |-> [i \in Ids |-> 0], conns |-> <<>>,
                   processes |-> [i \in Ids |-> 0], procs |-> <<>>,
                   reqs |-> <<>>, calls |-> <<>>, store |-> NoFile]
            m == ConnectStart(m0, "a", "u1", TRUE)
        IN /\ connections = m.connections
           /\ conns = m.conns
           /\ processes = m.processes
           /\ procs = [p \in DOMAIN m.procs |-> Piped(m.procs[p], stream)]
           /\ reqs = m.reqs
           /\ calls = m.calls
           /\ store = m.store
           /\ loading = FALSE

NextChunk == \E p \in DOMAIN procs, n \in 1..(MaxStream + 4) : StdoutData(p, n)

SpecChunk == InitChunk /\ [][NextChunk]_vars

\* The non-blank newline-terminated lines of a stream of bytes, as text
LinesOf(bytes) ==
    LET segs == Split(bytes)
        text == [i \in 1..(Len(segs) - 1) |-> DataToString(segs[i])]
    IN SelectSeq(text, NonBlank)

\* The unterminated tail of a stream of bytes, as text
TailOf(bytes) == LET segs == Split(bytes) IN DataToString(segs[Len(segs)])

\* C30: whatever the chunks, the lines taken up so far are the non-blank
\* newline-terminated lines of the bytes delivered so far, in order, and
\* once the whole stream is delivered the buffer holds its unterminated
\* tail.
C30_ChunkingIndependent ==
    \A p \in DOMAIN procs :
        /\ procs[p].frames = LinesOf(SubSeq(procs[p].stdout, 1, procs[p].read))
        /\ procs[p].read = Len(procs[p].stdout)
           => procs[p].buffer = TailOf(procs[p].stdout)

\* C31: the turn that handles the exit of the subprocess registered for an
\* id removes the LiveProcess entry of the id and, when a Connection is
\* stored for the id, leaves that same Connection stored with status
\* 'disconnected' and no pid.
C31_ExitTearsDown ==
    [][\A p \in DOMAIN procs :
         (/\ procs[p].os # "exited" /\ procs'[p].os = "exited"
          /\ processes[procs[p].id] = p)
         => LET id == procs[p].id
                k == connections[id]
            IN /\ processes'[id] = 0
               /\ connections'[id] = k
               /\ k # 0 => /\ conns'[k].status = "disconnected"
                           /\ conns'[k].pid = 0]_vars

\* C31 witness: a process that connect registered and nobody killed has
\* exited; its id has no LiveProcess entry and the Connection its connect
\* call made is stored as 'disconnected' without pid.
C31_Witness ==
    \E p \in DOMAIN procs :
        LET id == procs[p].id
            k == connections[id]
        IN /\ procs[p].os = "exited"
           /\ processes[id] = 0
           /\ k # 0
           /\ calls[Creator(M, k)].proc = p
           /\ conns[k].status = "disconnected"
           /\ conns[k].pid = 0
           /\ conns[k].error = None

----------------------------------------------------------------------------
(* Two connections side by side *)

PairConnect == 2
PairTeardown == 1
PairCallTool == 1

\* The activations of one kind of call for one id
CallsOf(kinds, id) ==
    {c \in DOMAIN calls : calls[c].kind \in kinds /\ calls[c].id = id}

\* The connection whose connect call came first stays quiet: it runs its
\* handshake, as far as it gets, before the other one makes its first call,
\* and no timer of it expires.  The other one is the eventful one.
Quiet(id) ==
    \E c \in CallsOf({"connect"}, id) :
        \A d \in DOMAIN calls : calls[d].kind = "connect" => c <= d
Alone(id) == \A c \in DOMAIN calls : calls[c].id = id
Moves(id) == Quiet(id) => Alone(id)

\* The turns that belong to connection id: its public calls (connect once
\* per id), the timers, file writes and continuations of those calls, and
\* the events of the processes spawned for it
OnConnection(id) ==
    \/ /\ CallsOf({"connect"}, id) = {}
       /\ \E url \in OneUrl : Connect(PairConnect, id, url, TRUE)
    \/ \E c \in DOMAIN calls :
          Moves(id) /\ calls[c].id = id /\ SettleElapsed(c, TRUE)
    \/ \E p \in DOMAIN procs :
          /\ Moves(id) /\ procs[p].id = id
          /\ Reply(p, "result", RTools(Catalogue), TRUE)
    \/ \E r \in DOMAIN reqs :
          /\ ~Quiet(id) /\ procs[reqs[r].proc].id = id
          /\ Timeout(r, TRUE)
    \/ \E p \in DOMAIN procs :
          ~Quiet(id) /\ procs[p].id = id /\ Exit(p)
    \/ ~Quiet(id) /\ Disconnect(PairTeardown, id)
    \/ ~Quiet(id) /\ RemoveConnection(PairTeardown, id)
    \/ ~Quiet(id) /\ CallTool(PairCallTool, id, TRUE)
    \/ \E c \in DOMAIN calls :
          Moves(id) /\ calls[c].id = id /\ SaveDone(c, TRUE)

\* SpecPair: two server ids, each connected at most once and answered by an
\* in-order remote; the second to connect also has its requests time out,
\* its process exit, one callTool and one disconnect or removeConnection,
\* while the first is at any point of its handshake.
NextPair == \E id \in Ids : OnConnection(id)

SpecPair == Init /\ [][NextPair]_vars

\* What connection id owns: its LiveProcess entry, its stored Connection and
\* that Connection's status, the decode buffer, request counter and pending
\* queue of each process spawned for it, and the requests sent to them
Owned(m, id) ==
    [entry |-> m.processes[id],
     conn |-> m.connections[id],
     status |-> IF m.connections[id] = 0 THEN "none"
                ELSE m.conns[m.connections[id]].status,
     procs |-> [p \in {q \in DOMAIN m.procs : m.procs[q].id = id} |->
                  <<m.procs[p].buffer, m.procs[p].requestId,
                    m.procs[p].messageQueue>>],
     reqs |-> [r \in {q \in DOMAIN m.reqs : m.procs[m.reqs[q].proc].id = id} |->
                  m.reqs[r]]]

\* C32: a turn that belongs to one connection leaves what every other
\* connection owns unchanged: the entry, the Connection and its status, the
\* buffers, request counters and pending queues, and the pending requests
\* (so a frame of one connection's process completes no request of another).
\* Stated by contraposition: a turn in which what b owns changes is no turn
\* of another connection a.
C32_ConnectionsIndependent ==
    [][\A a, b \in Ids :
         (a # b /\ Owned(MNext, b) # Owned(M, b)) => ~OnConnection(a)]_vars

\* C32 witness: both connections hold a request that a frame has not yet
\* answered for one of them: "a" had its initialize resolved by a frame of
\* its own process while the initialize written to b's process is still
\* pending in b's queue.
C32_Witness ==
    \E ra, rb \in DOMAIN reqs :
        /\ procs[reqs[ra].proc].id = "a" /\ procs[reqs[rb].proc].id = "b"
        /\ rb < ra
        /\ reqs[ra].state = "resolved" /\ reqs[ra].by = reqs[ra].rid
        /\ reqs[rb].state = "pending"
        /\ procs[reqs[rb].proc].messageQueue = <<rb>>
        /\ processes["b"] = reqs[rb].proc

----------------------------------------------------------------------------
(* connect while the initial load is reading the file *)

LoadConnect == 1

\* The module has just been loaded (line 451): the constructor has started
\* loadConnections, which awaits the read of a file that an earlier run's
\* saveConnections wrote.
InitLoad ==
    \E ra \in Stored("a"), rb \in Stored("b") :
        LET saved == [i \in Ids |->
                        LET r == IF i = "a" THEN ra ELSE rb
                        IN IF r = None THEN None
                           ELSE Some([Get(r) EXCEPT !.pid = 0])]
            m == Fresh(JSONStringify(saved))
        IN /\ connections = m.connections
           /\ conns = m.conns
           /\ processes = m.processes
           /\ procs = m.procs
           /\ reqs = m.reqs
           /\ calls = m.calls
           /\ store = m.store
           /\ loading = TRUE

\* SpecLoad: one connect call, answered by an in-order remote, running
\* before, while and after the file read of the initial load ends.
NextLoad ==
    \/ \E id \in OneId, url \in OneUrl : Connect(LoadConnect, id, url, TRUE)
    \/ \E c \in DOMAIN calls : SettleElapsed(c, TRUE)
    \/ \E p \in DOMAIN procs : Reply(p, "result", RTools(Catalogue), TRUE)
    \/ \E c \in DOMAIN calls : SaveDone(c, TRUE)
    \/ LoadDone

SpecLoad == InitLoad /\ [][NextLoad]_vars

\* C33: when the initial load ends, every id for which a connect call has
\* registered a Connection in the meantime still has that same Connection
\* object stored, with the status it had.
C33_LoadKeepsConnectRecord ==
    [][(loading /\ ~loading')
       => \A id \in Ids :
            connections[id] # 0
            => /\ connections'[id] = connections[id]
               /\ conns'[connections[id]].status = conns[connections[id]].status]_vars

\* The manager apart from the logs of what was written to the children
Unlogged(m) ==
    [m EXCEPT !.procs = [q \in DOMAIN m.procs |->
                           [m.procs[q] EXCEPT !.written = <<>>]]]

\* C34: sendNotification writes a message without id and changes nothing
\* else: no request is made, the request counter and the pending queue of
\* the process stay as they are, and every stdout chunk is handled after it
\* as it would have been without it.  Accordingly the request counter of a
\* process always equals the number of requests made for it, whatever
\* notifications were written to it, and every queue entry is one of those
\* requests.
C34_NotificationRegistersNothing ==
    /\ \A id \in Ids, wok \in BOOLEAN :
          LET p == processes[id]
              n == SendNotification(M, id, "notifications/initialized", wok)
          IN /\ Unlogged(n.m) = Unlogged(M)
             /\ n.failed => n.m = M
             /\ ~n.failed
                => n.m.procs[p].written =
                     Append(procs[p].written,
                            [method |-> "notifications/initialized", id |-> 0])
             /\ \A data \in Chunks :
                   Unlogged(HandleStdout(n.m, id, data, TRUE))
                     = Unlogged(HandleStdout(M, id, data, TRUE))
    /\ \A p \in DOMAIN procs :
          /\ procs[p].requestId
               = Cardinality({r \in DOMAIN reqs : reqs[r].proc = p})
          /\ \A i \in DOMAIN procs[p].messageQueue :
                reqs[procs[p].messageQueue[i]].proc = p

\* C34 witness: connect has written initialize, the notification and
\* tools/list to its process: the notification carries no id, tools/list
\* has id 2, the counter is 2 and the queue holds the tools/list request
\* alone.
C34_Witness ==
    \E p \in DOMAIN procs :
        /\ Len(procs[p].written) = 3
        /\ procs[p].written[2] = [method |-> "notifications/initialized", id |-> 0]
        /\ procs[p].written[3] = [method |-> "tools/list", id |-> 2]
        /\ procs[p].requestId = 2
        /\ Len(procs[p].messageQueue) = 1
        /\ reqs[procs[p].messageQueue[1]].method = "tools/list"

\* C35: the ids sendRequest takes for one process are 1, 2, 3, ... in the
\* order of the calls, whether or not the write went through, so the ids of
\* the requests written to the process are strictly increasing and no two
\* are equal.
C35_RequestIdsIncrease ==
    \A p \in DOMAIN procs :
        /\ \A r \in DOMAIN reqs :
              reqs[r].proc = p
              => reqs[r].rid = Cardinality({q \in 1..r : reqs[q].proc = p})
        /\ LET w == Requests(procs[p].written)
           IN \A i, j \in DOMAIN w : i < j => w[i].id < w[j].id

\* C35 witness: a request whose write failed took id n, and the next
\* request to the same process was written with id n + 1.
C35_Witness ==
    \E r1, r2 \in DOMAIN reqs :
        /\ r1 < r2 /\ reqs[r1].proc = reqs[r2].proc
        /\ reqs[r1].msg = ErrWrite
        /\ reqs[r2].rid = reqs[r1].rid + 1
        /\ \E i \in DOMAIN procs[reqs[r2].proc].written :
              procs[reqs[r2].proc].written[i].id = reqs[r2].rid
        /\ \A i \in DOMAIN procs[reqs[r1].proc].written :
              procs[reqs[r1].proc].written[i].id # reqs[r1].rid

\* C36: the turn of connect that spawns a process leaves it with its stdout
\* listener attached and nothing written to it, and whenever anything is
\* written to a process its listener is already attached: no request,
\* initialize included, is written before the listener is there.
C36_ListenerBeforeFirstRequest ==
    [][\A p \in DOMAIN procs' :
         /\ p \notin DOMAIN procs
            => procs'[p].listening /\ procs'[p].written = <<>>
         /\ (p \in DOMAIN procs /\ procs'[p].written # procs[p].written)
            => procs[p].listening]_vars

\* C36 witness: initialize was the first message written to a process and
\* the response to it, delivered through the listener, resolved it.
C36_Witness ==
    \E r \in DOMAIN reqs :
        LET p == reqs[r].proc
        IN /\ procs[p].listening
           /\ procs[p].written # <<>>
           /\ procs[p].written[1] = [method |-> "initialize", id |-> 1]
           /\ reqs[r].method = "initialize" /\ reqs[r].rid = 1
           /\ reqs[r].state = "resolved" /\ reqs[r].by = 1

====
